---- MODULE Spec2Model ----
(***************************************************************************)
(* aws_snapshot_manager.py: one cron run of main() takes a snapshot, lists *)
(* the managed inventory and deletes the snapshots the retention rule      *)
(* expires.  Strings are sequences of one-character strings, so that the   *)
(* regular-expression match and the lexical comparison of the source are   *)
(* computed character by character.                                        *)
(***************************************************************************)
EXTENDS Integers, Sequences, FiniteSets, TLC

\* ------------------------------------------------------------------ bounds

\* today ranges over anchor .. anchor + MaxAhead for each anchor date
MaxAhead == 9
\* a snapshot of the initial inventory is 0 .. MaxAge days older than today
MaxAge == 10
\* the provider holds at most MaxList snapshots in the filter specification
MaxList == 3
\* the daily specification runs main on at most MaxRuns consecutive days
MaxRuns == 9
\* the daily specification starts with snapshots up to MaxPast days old
MaxPast == 4

\* ---------------------------------------------------------------- calendar

\* calendar.mdays, months 1..12 (index 0 of the Python list is a placeholder)
mdays == <<31, 28, 31, 30, 31, 30, 31, 31, 30, 31, 30, 31>>

\* datetime._is_leap
IsLeap(y) == y % 4 = 0 /\ (y % 100 # 0 \/ y % 400 = 0)

\* datetime._days_in_month: what datetime.date itself uses
DaysInMonth(y, m) == IF m = 2 /\ IsLeap(y) THEN 29 ELSE mdays[m]

\* datetime._days_before_year
DaysBeforeYear(y) ==
    (y - 1) * 365 + ((y - 1) \div 4) - ((y - 1) \div 100) + ((y - 1) \div 400)

RECURSIVE DaysBeforeMonth(_, _)
\* datetime._days_before_month
DaysBeforeMonth(y, m) ==
    IF m = 1 THEN 0 ELSE DaysBeforeMonth(y, m - 1) + DaysInMonth(y, m - 1)

\* datetime.date(y, m, d).toordinal()
ToOrdinal(y, m, d) == DaysBeforeYear(y) + DaysBeforeMonth(y, m) + d

\* datetime.date.fromordinal(n), as datetime._ord2ymd computes it
FromOrdinal(n) ==
    LET n0   == n - 1
        n400 == n0 \div 146097
        r400 == n0 % 146097
        n100 == r400 \div 36524
        r100 == r400 % 36524
        n4   == r100 \div 1461
        r4   == r100 % 1461
        n1   == r4 \div 365
        r1   == r4 % 365
        year == n400 * 400 + 1 + n100 * 100 + n4 * 4 + n1
    IN  IF n1 = 4 \/ n100 = 4
        THEN [year |-> year - 1, month |-> 12, day |-> 31]
        ELSE LET mo == CHOOSE k \in 1..12 :
                          /\ DaysBeforeMonth(year, k) <= r1
                          /\ r1 < DaysBeforeMonth(year, k) + DaysInMonth(year, k)
             IN  [year |-> year, month |-> mo,
                  day |-> r1 - DaysBeforeMonth(year, mo) + 1]

\* ----------------------------------------------------------------- strings

Digit == <<"0", "1", "2", "3", "4", "5", "6", "7", "8", "9">>

DigitChars == {Digit[i] : i \in 1..10}

\* the value of a digit character
DigitVal(c) == (CHOOSE i \in 1..10 : Digit[i] = c) - 1

\* the code points of the characters a timestamp or an ISO date can hold
Ord(c) ==
    CASE c = "-" -> 45
      [] c = "." -> 46
      [] c \in DigitChars -> 48 + DigitVal(c)
      [] c = ":" -> 58
      [] c = "T" -> 84
      [] c = "Z" -> 90
      [] OTHER -> 32

\* "%02d" % n
Pad2(n) == <<Digit[((n \div 10) % 10) + 1], Digit[(n % 10) + 1]>>

\* "%04d" % n
Pad4(n) ==
    <<Digit[((n \div 1000) % 10) + 1], Digit[((n \div 100) % 10) + 1]>> \o Pad2(n % 100)

\* datetime.date.isoformat(): YYYY-MM-DD
IsoFormat(n) ==
    LET d == FromOrdinal(n)
    IN  Pad4(d.year) \o <<"-">> \o Pad2(d.month) \o <<"-">> \o Pad2(d.day)

\* Python's a <= b on strings: the first differing character decides, and a
\* proper prefix is smaller than the longer string
StrLeq(a, b) ==
    LET m    == IF Len(a) < Len(b) THEN Len(a) ELSE Len(b)
        diff == {i \in 1..m : a[i] # b[i]}
    IN  IF diff = {}
        THEN Len(a) <= Len(b)
        ELSE LET i == CHOOSE j \in diff : \A k \in diff : j <= k
             IN  Ord(a[i]) < Ord(b[i])

\* datetime.datetime.strptime(s, '%Y-%m-%dT%H:%M:%S.%fZ') on a timestamp whose
\* fields are zero-padded: the layout must match, %f takes one to six digits,
\* and the fields must form a date and a time.  ok = FALSE is ValueError.
Strptime(s) ==
    LET n      == Len(s)
        digits == {1, 2, 3, 4, 6, 7, 9, 10, 12, 13, 15, 16, 18, 19}
        num2(i) == DigitVal(s[i]) * 10 + DigitVal(s[i + 1])
        layout ==
            /\ n >= 22 /\ n <= 27
            /\ \A i \in digits : s[i] \in DigitChars
            /\ s[5] = "-" /\ s[8] = "-" /\ s[11] = "T"
            /\ s[14] = ":" /\ s[17] = ":" /\ s[20] = "."
            /\ \A i \in 21..(n - 1) : s[i] \in DigitChars
            /\ s[n] = "Z"
        y  == DigitVal(s[1]) * 1000 + DigitVal(s[2]) * 100 + num2(3)
        mo == num2(6)
        d  == num2(9)
        valid ==
            /\ y >= 1 /\ mo >= 1 /\ mo <= 12
            /\ d >= 1 /\ d <= DaysInMonth(y, mo)
            /\ num2(12) <= 23 /\ num2(15) <= 59 /\ num2(18) <= 59
    IN  IF layout /\ valid
        THEN [ok |-> TRUE, year |-> y, month |-> mo, day |-> d]
        ELSE [ok |-> FALSE, year |-> 0, month |-> 0, day |-> 0]

\* re.match(pattern, s) for a pattern of ordinary characters and ".": the
\* match is anchored at the start of s, an ordinary character matches itself
\* and "." matches any character but a newline
ReMatch(pattern, s) ==
    /\ Len(s) >= Len(pattern)
    /\ \A i \in 1..Len(pattern) :
          IF pattern[i] = "." THEN s[i] # "\n" ELSE s[i] = pattern[i]

\* --------------------------------------------------------------- snapshots

\* 'Created by aws_snapshot_manager.py'
description ==
    <<"C", "r", "e", "a", "t", "e", "d", " ", "b", "y", " ", "a", "w", "s",
      "_", "s", "n", "a", "p", "s", "h", "o", "t", "_", "m", "a", "n", "a",
      "g", "e", "r", ".", "p", "y">>

\* the time of day of the cron run, as isoformat(' ') prints it
RunTime == <<"0", "3", ":", "0", "0", ":", "0", "0">>

\* 'Created by aws_snapshot_manager.py at ' + datetime.datetime.today().isoformat(' ')
snapshot_description(day) ==
    description \o <<" ", "a", "t", " ">> \o IsoFormat(day) \o <<" ">> \o RunTime

\* the provider's start_time of a snapshot taken on `day` at time `tod`
Timestamp(day, tod) == IsoFormat(day) \o <<"T">> \o tod

Midnight == <<"0", "0", ":", "0", "0", ":", "0", "0", ".", "0", "0", "0", "Z">>

LastMilli == <<"2", "3", ":", "5", "9", ":", "5", "9", ".", "9", "9", "9", "Z">>

CronTime == <<"0", "3", ":", "0", "0", ":", "0", "0", ".", "0", "0", "0", "Z">>

\* a timestamp without the fraction of a second: strptime rejects it
NoFraction == <<"0", "3", ":", "0", "0", ":", "0", "0", "Z">>

Snapshot(id, desc, st) == [id |-> id, description |-> desc, start_time |-> st]

\* a snapshot an earlier run of the script took on `day`
Managed(id, day, tod) == Snapshot(id, snapshot_description(day), Timestamp(day, tod))

\* descriptions the account's other snapshots carry
OtherTool ==
    <<"O", "t", "h", "e", "r", " ", "t", "o", "o", "l", " ", "s", "n", "a",
      "p", "s", "h", "o", "t">>

\* differs from the tag in one character, where the pattern has "."
LookAlike ==
    <<"C", "r", "e", "a", "t", "e", "d", " ", "b", "y", " ", "a", "w", "s",
      "_", "s", "n", "a", "p", "s", "h", "o", "t", "_", "m", "a", "n", "a",
      "g", "e", "r", "X", "p", "y", " ", "a", "t", " ", "2", "0", "2", "4">>

\* holds the tag, but not at the start
TagInside ==
    <<"N", "o", "t", " ", "C", "r", "e", "a", "t", "e", "d", " ", "b", "y",
      " ", "a", "w", "s", "_", "s", "n", "a", "p", "s", "h", "o", "t", "_",
      "m", "a", "n", "a", "g", "e", "r", ".", "p", "y">>

\* the tag cut short
TagCut ==
    <<"C", "r", "e", "a", "t", "e", "d", " ", "b", "y", " ", "a", "w", "s",
      "_", "s", "n", "a", "p", "s", "h", "o", "t", "_", "m", "a", "n", "a",
      "g", "e", "r">>

\* ------------------------------------------------------------------- state

VARIABLES
    today,                   \* datetime.date.today(), as an ordinal
    provider,                \* the snapshots the account holds, in listing order
    pc,                      \* where main is
    archival_snapshot_list,  \* get_snapshot_list's result
    expired_snapshots,       \* manage_snapshot_inventory's list
    idx,                     \* the position of the running for loop
    result,                  \* manage_snapshot_inventory's result: <<>> is None
    exit_status,             \* the process's exit status, -1 while it runs
    log,                     \* the syslog lines of this run
    calls,                   \* the provider calls of this run
    runs                     \* the number of the cron run

vars == <<today, provider, pc, archival_snapshot_list, expired_snapshots, idx,
          result, exit_status, log, calls, runs>>

None == <<>>

Line(level, msg, arg) == [level |-> level, msg |-> msg, arg |-> arg]

Call(op, arg, ok) == [op |-> op, arg |-> arg, ok |-> ok]

\* an exception nobody catches ends the interpreter with status 1
Uncaught ==
    /\ pc' = "crashed"
    /\ exit_status' = 1

\* ------------------------------------------------------- the retention rule

\* mutant of week_delta: a window of five days
week_delta_short(day) == day - 5

\* week_delta = today - datetime.timedelta(days=7)
week_delta(day) == day - 7

\* mutant of IsExpired: `or` for `and`
IsExpired_or(snapshot, snapshot_date, day) ==
    \/ StrLeq(snapshot.start_time, IsoFormat(day - 7))
    \/ snapshot_date.day # mdays[snapshot_date.month]

\* mutant of IsExpired: the date part of start_time is compared with the cutoff
IsExpired_dateonly(snapshot, snapshot_date, day) ==
    /\ StrLeq(SubSeq(snapshot.start_time, 1, 10), IsoFormat(day - 7))
    /\ snapshot_date.day # mdays[snapshot_date.month]

\* the condition of the if statement of manage_snapshot_inventory, on a
\* snapshot whose start_time strptime has parsed into snapshot_date
IsExpired(snapshot, snapshot_date, day) ==
    /\ StrLeq(snapshot.start_time, IsoFormat(week_delta(day)))
    /\ snapshot_date.day # mdays[snapshot_date.month]

\* the list comprehension of get_snapshot_list
FilterManaged(all_snapshots) ==
    SelectSeq(all_snapshots, LAMBDA i : ReMatch(description, i.description))

\* ------------------------------------------------------------------ actions

\* main, up to the call of start_aws_connection
Start ==
    /\ pc = "start"
    /\ pc' = "connect"
    /\ log' = Append(log, Line("INFO", "starting", 0))
    /\ UNCHANGED <<today, provider, archival_snapshot_list, expired_snapshots,
                   idx, result, exit_status, calls, runs>>

\* start_aws_connection: when boto.connect_ec2 raises, the error is logged and
\* `return conn` reads a local that was never bound: UnboundLocalError
StartAwsConnection(ok) ==
    /\ pc = "connect"
    /\ calls' = Append(calls, Call("connect_ec2", 0, ok))
    /\ IF ok
       THEN /\ log' = Append(log, Line("DEBUG", "initiated", 0))
            /\ pc' = "select"
            /\ UNCHANGED exit_status
       ELSE /\ log' = Append(log, Line("ERROR", "failed to connect", 0))
            /\ Uncaught
    /\ UNCHANGED <<today, provider, archival_snapshot_list, expired_snapshots,
                   idx, result, runs>>

\* select_volume: get_all_volumes raises for an unknown volume, and nothing
\* catches it
SelectVolume(ok) ==
    /\ pc = "select"
    /\ calls' = Append(calls, Call("get_all_volumes", 0, ok))
    /\ IF ok
       THEN /\ log' = Append(log, Line("DEBUG", "selected", 0))
            /\ pc' = "take"
            /\ UNCHANGED exit_status
       ELSE /\ UNCHANGED log
            /\ Uncaught
    /\ UNCHANGED <<today, provider, archival_snapshot_list, expired_snapshots,
                   idx, result, runs>>

\* the id the provider gives the next snapshot
NewId ==
    LET ids == {provider[i].id : i \in 1..Len(provider)}
    IN  IF ids = {} THEN 1 ELSE 1 + CHOOSE m \in ids : \A k \in ids : k <= m

\* mutant of TakeSnapshot: the failure is logged and main goes on
TakeSnapshot_noexit(ok) ==
    /\ pc = "take"
    /\ calls' = Append(calls, Call("create_snapshot", 0, ok))
    /\ IF ok
       THEN /\ provider' = Append(provider,
                   Snapshot(NewId, snapshot_description(today),
                            Timestamp(today, CronTime)))
            /\ log' = Append(log, Line("INFO", "created", NewId))
       ELSE /\ log' = Append(log, Line("ERROR", "failed to create", 0))
            /\ UNCHANGED provider
    /\ pc' = "list"
    /\ UNCHANGED <<today, archival_snapshot_list, expired_snapshots, idx, result,
                   exit_status, runs>>

\* take_snapshot: the provider dates the new snapshot today; a failure is
\* logged and ends the process with sys.exit(1)
TakeSnapshot(ok) ==
    /\ pc = "take"
    /\ calls' = Append(calls, Call("create_snapshot", 0, ok))
    /\ IF ok
       THEN /\ provider' = Append(provider,
                   Snapshot(NewId, snapshot_description(today),
                            Timestamp(today, CronTime)))
            /\ log' = Append(log, Line("INFO", "created", NewId))
            /\ pc' = "list"
            /\ UNCHANGED exit_status
       ELSE /\ log' = Append(log, Line("ERROR", "failed to create", 0))
            /\ pc' = "exited"
            /\ exit_status' = 1
            /\ UNCHANGED provider
    /\ UNCHANGED <<today, archival_snapshot_list, expired_snapshots, idx, result,
                   runs>>

\* get_snapshot_list, and the first lines of manage_snapshot_inventory
GetSnapshotList(ok) ==
    /\ pc = "list"
    /\ calls' = Append(calls, Call("get_all_snapshots", 0, ok))
    /\ IF ok
       THEN LET found == FilterManaged(provider)
                debug == Append(log, Line("DEBUG", "in inventory", Len(found)))
            IN  /\ archival_snapshot_list' = found
                /\ log' = IF Len(found) < 7
                          THEN Append(debug, Line("ERROR", "fewer than 7", Len(found)))
                          ELSE debug
                /\ expired_snapshots' = <<>>
                /\ idx' = 1
                /\ pc' = "classify"
                /\ UNCHANGED exit_status
       ELSE /\ UNCHANGED <<archival_snapshot_list, expired_snapshots, idx, log>>
            /\ Uncaught
    /\ UNCHANGED <<today, provider, result, runs>>

\* mutant of Classify: a timestamp that cannot be parsed is skipped
Classify_skip ==
    /\ pc = "classify"
    /\ idx <= Len(archival_snapshot_list)
    /\ LET snapshot      == archival_snapshot_list[idx]
           snapshot_date == Strptime(snapshot.start_time)
       IN  expired_snapshots' =
               IF snapshot_date.ok /\ IsExpired(snapshot, snapshot_date, today)
               THEN Append(expired_snapshots, snapshot)
               ELSE expired_snapshots
    /\ idx' = idx + 1
    /\ UNCHANGED <<today, provider, pc, archival_snapshot_list, result,
                   exit_status, log, calls, runs>>

\* one pass of the first for loop of manage_snapshot_inventory: strptime
\* raises ValueError on a timestamp it cannot parse, and nothing catches it
Classify ==
    /\ pc = "classify"
    /\ idx <= Len(archival_snapshot_list)
    /\ LET snapshot      == archival_snapshot_list[idx]
           snapshot_date == Strptime(snapshot.start_time)
       IN  IF snapshot_date.ok
           THEN /\ expired_snapshots' =
                      IF IsExpired(snapshot, snapshot_date, today)
                      THEN Append(expired_snapshots, snapshot)
                      ELSE expired_snapshots
                /\ idx' = idx + 1
                /\ UNCHANGED <<pc, exit_status>>
           ELSE /\ UNCHANGED <<expired_snapshots, idx>>
                /\ Uncaught
    /\ UNCHANGED <<today, provider, archival_snapshot_list, result, log, calls,
                   runs>>

\* the if statement after the loop; with nothing expired the result is 0 and
\* main returns
Classified ==
    /\ pc = "classify"
    /\ idx > Len(archival_snapshot_list)
    /\ IF Len(expired_snapshots) > 0
       THEN /\ pc' = "delete"
            /\ idx' = 1
            /\ UNCHANGED <<result, exit_status, log>>
       ELSE /\ log' = Append(log, Line("DEBUG", "not deleting", 0))
            /\ result' = <<0>>
            /\ pc' = "done"
            /\ exit_status' = 0
            /\ UNCHANGED idx
    /\ UNCHANGED <<today, provider, archival_snapshot_list, expired_snapshots,
                   calls, runs>>

\* mutant of DeleteSnapshot: no try around snapshot.delete()
DeleteSnapshot_abort(ok) ==
    /\ pc = "delete"
    /\ idx <= Len(expired_snapshots)
    /\ LET snapshot == expired_snapshots[idx]
       IN  /\ calls' = Append(calls, Call("delete", snapshot.id, ok))
           /\ log' = Append(log, Line("INFO", "deleting", snapshot.id))
           /\ IF ok
              THEN /\ provider' = SelectSeq(provider, LAMBDA s : s.id # snapshot.id)
                   /\ idx' = idx + 1
                   /\ UNCHANGED <<pc, exit_status>>
              ELSE /\ UNCHANGED <<provider, idx>>
                   /\ Uncaught
    /\ UNCHANGED <<today, archival_snapshot_list, expired_snapshots, result, runs>>

\* one pass of the for loop of delete_snapshots: a delete that raises is
\* logged and the loop goes on
DeleteSnapshot(ok) ==
    /\ pc = "delete"
    /\ idx <= Len(expired_snapshots)
    /\ LET snapshot == expired_snapshots[idx]
           info     == Append(log, Line("INFO", "deleting", snapshot.id))
       IN  /\ calls' = Append(calls, Call("delete", snapshot.id, ok))
           /\ IF ok
              THEN /\ provider' = SelectSeq(provider, LAMBDA s : s.id # snapshot.id)
                   /\ log' = info
              ELSE /\ UNCHANGED provider
                   /\ log' = Append(info, Line("ERROR", "failed to delete", snapshot.id))
    /\ idx' = idx + 1
    /\ UNCHANGED <<today, pc, archival_snapshot_list, expired_snapshots, result,
                   exit_status, runs>>

\* delete_snapshots has no return statement: the result is None, main drops
\* it and the process ends with status 0
Deleted ==
    /\ pc = "delete"
    /\ idx > Len(expired_snapshots)
    /\ result' = None
    /\ pc' = "done"
    /\ exit_status' = 0
    /\ UNCHANGED <<today, provider, archival_snapshot_list, expired_snapshots,
                   idx, log, calls, runs>>

\* ----------------------------------------------------- one run of the script

\* the last days of a short February, a year, a leap February and a 30-day month
Anchors ==
    {ToOrdinal(2023, 2, 28), ToOrdinal(2023, 12, 31), ToOrdinal(2024, 2, 29),
     ToOrdinal(2024, 4, 30)}

Todays == {a + k : a \in Anchors, k \in 0..MaxAhead}

Ages == 0..MaxAge

\* the inventories a run starts with: nothing; one snapshot of any age, taken
\* at the first or the last instant of its day, the script's own or another
\* tool's; two managed snapshots of any ages; a managed snapshot beside one
\* whose timestamp has no fraction, in either order; one snapshot a day for
\* the last MaxAge days
Inventories(day) ==
    {<<>>}
    \cup {<<Managed(1, day - a, tod)>> : a \in Ages, tod \in {Midnight, LastMilli}}
    \cup {<<Snapshot(1, OtherTool, Timestamp(day - a, Midnight))>> : a \in Ages}
    \cup {<<Managed(1, day - a, CronTime), Managed(2, day - b, CronTime)>> :
             a \in Ages, b \in Ages}
    \cup {<<Managed(1, day - a, CronTime),
            Snapshot(2, snapshot_description(day - a), Timestamp(day - a, NoFraction))>> :
             a \in Ages}
    \cup {<<Snapshot(1, snapshot_description(day - a), Timestamp(day - a, NoFraction)),
            Managed(2, day - a, CronTime)>> : a \in Ages}
    \cup {[i \in 1..MaxAge |-> Managed(i, day - (MaxAge + 1 - i), CronTime)]}

Idle ==
    /\ pc = "start"
    /\ archival_snapshot_list = <<>>
    /\ expired_snapshots = <<>>
    /\ idx = 1
    /\ result = None
    /\ exit_status = -1
    /\ log = <<>>
    /\ calls = <<>>

Init ==
    /\ today \in Todays
    /\ provider \in Inventories(today)
    /\ runs = 1
    /\ Idle

Next ==
    \/ Start
    \/ \E ok \in BOOLEAN : StartAwsConnection(ok)
    \/ \E ok \in BOOLEAN : SelectVolume(ok)
    \/ \E ok \in BOOLEAN : TakeSnapshot(ok)
    \/ \E ok \in BOOLEAN : GetSnapshotList(ok)
    \/ Classify
    \/ Classified
    \/ \E ok \in BOOLEAN : DeleteSnapshot(ok)
    \/ Deleted

Spec == Init /\ [][Next]_vars

\* ------------------------------------------------ the filter on its own

Descriptions == {snapshot_description(ToOrdinal(2024, 3, 1)), OtherTool, LookAlike,
                 TagInside, TagCut}

FilterDay == ToOrdinal(2024, 3, 15)

\* every list of at most MaxList snapshots over the descriptions
InitFilter ==
    /\ today = FilterDay
    /\ \E n \in 0..MaxList : \E f \in [1..n -> Descriptions] :
          provider = [i \in 1..n |-> Snapshot(i, f[i], Timestamp(FilterDay - 1, CronTime))]
    /\ runs = 1
    /\ Idle

NextFilter ==
    \/ Start
    \/ StartAwsConnection(TRUE)
    \/ SelectVolume(TRUE)
    \/ TakeSnapshot(TRUE)
    \/ GetSnapshotList(TRUE)

SpecFilter == InitFilter /\ [][NextFilter]_vars

\* --------------------------------------------- one run a day, nothing failing

\* cron starts main again the next day, however the last run ended
NextDay ==
    /\ pc \in {"done", "crashed", "exited"}
    /\ runs < MaxRuns
    /\ today' = today + 1
    /\ runs' = runs + 1
    /\ pc' = "start"
    /\ archival_snapshot_list' = <<>>
    /\ expired_snapshots' = <<>>
    /\ idx' = 1
    /\ result' = None
    /\ exit_status' = -1
    /\ log' = <<>>
    /\ calls' = <<>>
    /\ UNCHANGED provider

DailyStarts == {ToOrdinal(2023, 12, 27), ToOrdinal(2024, 2, 24), ToOrdinal(2024, 3, 5)}

RECURSIVE PastSnapshots(_, _, _)
\* the managed snapshots taken `a` .. 1 days before `day`, for the ages in S
PastSnapshots(day, S, a) ==
    IF a = 0 THEN <<>>
    ELSE (IF a \in S THEN <<Managed(a, day - a, CronTime)>> ELSE <<>>)
         \o PastSnapshots(day, S, a - 1)

\* any managed inventory of the last MaxPast days, or one snapshot whose
\* timestamp strptime rejects
InitDaily ==
    /\ today \in DailyStarts
    /\ \/ \E S \in SUBSET (1..MaxPast) : provider = PastSnapshots(today, S, MaxPast)
       \/ provider = <<Snapshot(1, snapshot_description(today - 1),
                                Timestamp(today - 1, NoFraction))>>
    /\ runs = 1
    /\ Idle

NextDaily ==
    \/ Start
    \/ StartAwsConnection(TRUE)
    \/ SelectVolume(TRUE)
    \/ TakeSnapshot(TRUE)
    \/ \E ok \in BOOLEAN : GetSnapshotList(ok)
    \/ Classify
    \/ Classified
    \/ DeleteSnapshot(TRUE)
    \/ Deleted
    \/ NextDay

SpecDaily == InitDaily /\ [][NextDaily]_vars

\* ------------------------------------------------------------------ claims

\* the calendar date of a snapshot's start_time
StampDate(s) == Strptime(s.start_time)

Parsed(s) == StampDate(s).ok

StampOrdinal(s) ==
    LET d == StampDate(s) IN ToOrdinal(d.year, d.month, d.day)

\* whole calendar days between the snapshot's date and today
AgeInDays(s) == today - StampOrdinal(s)

\* the snapshot is dated the last calendar day of its own month and year
OnMonthEnd(s) ==
    LET d == StampDate(s) IN d.day = DaysInMonth(d.year, d.month)

InExpired(s) == \E k \in 1..Len(expired_snapshots) : expired_snapshots[k].id = s.id

InProvider(s) == \E k \in 1..Len(provider) : provider[k].id = s.id

InventoryMembers ==
    {archival_snapshot_list[i] : i \in 1..Len(archival_snapshot_list)}

DeleteCalls == SelectSeq(calls, LAMBDA c : c.op = "delete")

DeleteTried(s) == \E k \in 1..Len(DeleteCalls) : DeleteCalls[k].arg = s.id

\* the first for loop of manage_snapshot_inventory has run to its end
ClassificationDone == pc \in {"delete", "done"}

HasLine(level, msg) == \E k \in 1..Len(log) : log[k].level = level /\ log[k].msg = msg

\* C1: a managed snapshot dated the last calendar day of its month (Feb 29 in
\* a leap year included) is never put in the expired list and no delete is
\* called on it, however old it is.
C1_MonthEndImmunity ==
    \A s \in InventoryMembers :
        (Parsed(s) /\ OnMonthEnd(s)) => (~InExpired(s) /\ ~DeleteTried(s))

\* C2: a managed snapshot dated within [today-6, today] is never put in the
\* expired list, month-end or not.
C2_SevenDayFloor ==
    \A s \in InventoryMembers :
        (Parsed(s) /\ AgeInDays(s) >= 0 /\ AgeInDays(s) <= 6) => ~InExpired(s)

\* a run has ended in which a six-day-old snapshot that is no month-end by
\* either reckoning was kept while another snapshot was deleted
C2_Witness ==
    /\ pc = "done"
    /\ Len(DeleteCalls) > 0
    /\ \E s \in InventoryMembers :
          /\ Parsed(s) /\ AgeInDays(s) = 6
          /\ ~OnMonthEnd(s) /\ StampDate(s).day # mdays[StampDate(s).month]
          /\ InProvider(s)

\* C3 as stated: once classification is over, a managed snapshot that is no
\* month-end and is dated exactly today - 7 has met start_time <= cutoff and
\* is in the expired list.
C3_CutoffDateExpires ==
    ClassificationDone =>
        \A s \in InventoryMembers :
            (Parsed(s) /\ AgeInDays(s) = 7 /\ ~OnMonthEnd(s)) =>
                (StrLeq(s.start_time, IsoFormat(today - 7)) /\ InExpired(s))

\* C3 amended: a managed snapshot dated exactly today - 7, at any time of
\* day, does not meet start_time <= cutoff.isoformat() (the date string is a
\* proper prefix of the timestamp) and is never in the expired list; the age
\* test is first met by a snapshot dated today - 8.
C3_CutoffDateKept ==
    \A s \in InventoryMembers :
        /\ (Parsed(s) /\ AgeInDays(s) = 7) =>
              (~StrLeq(s.start_time, IsoFormat(today - 7)) /\ ~InExpired(s))
        /\ (Parsed(s) /\ AgeInDays(s) = 8) =>
              StrLeq(s.start_time, IsoFormat(today - 7))

\* a run has ended that kept a snapshot taken at the first instant of
\* today - 7, no month-end by either reckoning, and deleted an older one
C3_Witness ==
    /\ pc = "done"
    /\ \E s \in InventoryMembers :
          /\ Parsed(s) /\ AgeInDays(s) = 7
          /\ ~OnMonthEnd(s) /\ StampDate(s).day # mdays[StampDate(s).month]
          /\ SubSeq(s.start_time, 12, Len(s.start_time)) = Midnight
          /\ InProvider(s) /\ ~DeleteTried(s)

\* C4: once classification is over, every managed snapshot dated 8 or more
\* days before today and not on the last calendar day of its month (Feb 28
\* of a leap year is not one) is in the expired list, and by the end of the
\* run a delete has been tried on it.
C4_ExpiryComplete ==
    /\ ClassificationDone =>
          \A s \in InventoryMembers :
              (Parsed(s) /\ AgeInDays(s) >= 8 /\ ~OnMonthEnd(s)) => InExpired(s)
    /\ pc = "done" =>
          \A s \in InventoryMembers :
              (Parsed(s) /\ AgeInDays(s) >= 8 /\ ~OnMonthEnd(s)) => DeleteTried(s)

\* the description begins with the tag, character for character
HasTagPrefix(s) ==
    /\ Len(s.description) >= Len(description)
    /\ SubSeq(s.description, 1, Len(description)) = description

\* C5: get_snapshot_list returns exactly the snapshots whose description
\* begins with the literal tag, in the provider's order.
C5_LiteralPrefixFilter ==
    pc = "classify" => archival_snapshot_list = SelectSeq(provider, HasTagPrefix)

\* C6: delete_snapshots tries a delete exactly once on every member of the
\* expired list, in order, whichever of them fail; each failure is logged,
\* each success removes the snapshot, and a failure never ends the run.
C6_DeleteEveryMember ==
    LET failed   == {k \in 1..Len(DeleteCalls) : ~DeleteCalls[k].ok}
        failures == SelectSeq(log, LAMBDA l : l.msg = "failed to delete")
    IN  /\ Len(DeleteCalls) > 0 => pc \in {"delete", "done"}
        /\ pc = "delete" => Len(DeleteCalls) = idx - 1
        /\ (pc = "done" /\ result = None) => Len(DeleteCalls) = Len(expired_snapshots)
        /\ \A k \in 1..Len(DeleteCalls) :
              /\ DeleteCalls[k].arg = expired_snapshots[k].id
              /\ DeleteCalls[k].ok <=> ~InProvider(expired_snapshots[k])
        /\ Len(failures) = Cardinality(failed)
        /\ \A k \in failed :
              \E j \in 1..Len(failures) : failures[j].arg = DeleteCalls[k].arg

\* a run has ended whose first delete failed, whose second succeeded and
\* whose third failed
C6_Witness ==
    /\ pc = "done"
    /\ Len(DeleteCalls) = 3
    /\ ~DeleteCalls[1].ok /\ DeleteCalls[2].ok /\ ~DeleteCalls[3].ok

\* C7: a run in which a delete failed ends without an exception and with a
\* non-zero status, the result of manage_snapshot_inventory and the exit
\* status of the process; a run in which every delete succeeded ends with 0.
C7_AdvisoryStatus ==
    pc = "done" =>
        IF \E k \in 1..Len(DeleteCalls) : ~DeleteCalls[k].ok
        THEN exit_status # 0 /\ result # None /\ result # <<0>>
        ELSE exit_status = 0

\* C8: a failed connect_ec2 or create_snapshot is logged, ends the run with a
\* non-zero exit status, and is the last provider call of the run; a failed
\* creation leaves the provider's snapshots as they were.
C8_FatalErrorsStop ==
    \A k \in 1..Len(calls) :
        /\ (calls[k].op = "connect_ec2" /\ ~calls[k].ok) =>
              /\ HasLine("ERROR", "failed to connect")
              /\ pc = "crashed" /\ exit_status = 1
              /\ k = Len(calls)
        /\ (calls[k].op = "create_snapshot" /\ ~calls[k].ok) =>
              /\ HasLine("ERROR", "failed to create")
              /\ pc = "exited" /\ exit_status = 1
              /\ k = Len(calls)
              /\ \A i \in 1..Len(calls) :
                    calls[i].op \notin {"get_all_snapshots", "delete"}

\* the creation failed in a run whose inventory held a snapshot the
\* retention pass would have deleted
C8_Witness ==
    /\ pc = "exited"
    /\ calls[Len(calls)].op = "create_snapshot"
    /\ \E i \in 1..Len(provider) :
          LET d == Strptime(provider[i].start_time)
          IN  d.ok /\ IsExpired(provider[i], d, today)

\* C9: with one run a day, every creation and every delete succeeding, from
\* the 7th run on the managed inventory holds at least 7 snapshots when the
\* run has ended, and the 'fewer than 7' error is not logged.
C9_SteadyInventory ==
    runs >= 7 =>
        /\ pc \in {"done", "crashed"} => Len(FilterManaged(provider)) >= 7
        /\ ~HasLine("ERROR", "fewer than 7")

\* a run after the 7th has ended after deleting a snapshot
C9_Witness ==
    /\ runs > 7
    /\ pc = "done"
    /\ \E k \in 1..Len(DeleteCalls) : DeleteCalls[k].ok

\* C10: no delete is called before every managed snapshot has been parsed
\* and classified; when a managed timestamp cannot be parsed the run ends
\* with an error, the malformed snapshot is never in the expired list, and
\* no snapshot is deleted.
C10_ClassifyBeforeDelete ==
    /\ Len(DeleteCalls) > 0 =>
          /\ \A s \in InventoryMembers : Parsed(s)
          /\ pc \in {"delete", "done"}
    /\ (\E s \in InventoryMembers : ~Parsed(s)) =>
          /\ pc \in {"classify", "crashed"}
          /\ pc = "crashed" => exit_status = 1
          /\ Len(DeleteCalls) = 0
          /\ \A s \in InventoryMembers : InProvider(s) /\ (~Parsed(s) => ~InExpired(s))

\* a run has crashed on a timestamp it could not parse after it had put an
\* earlier snapshot in the expired list
C10_Witness ==
    /\ pc = "crashed"
    /\ Len(expired_snapshots) > 0
    /\ \E s \in InventoryMembers : ~Parsed(s)

====
